---- MODULE Spec2Model ----
(***************************************************************************)
(* FIFO lot tracking and tax-loss-harvesting evaluation of                 *)
(* FIFO_portf_snake_JsonArray.py: fetch_transactions, process_account,     *)
(* evaluate_tax_loss_harvesting, get_current_stock_price and the two entry *)
(* points (process_account_endpoint, main in interactive mode).            *)
(*                                                                         *)
(* Numbers.  A Python float is modelled as an exact decimal                *)
(* [nan, m, e] standing for m * 10^-e (nan for NaN), kept normalised.      *)
(* Share counts in the inputs are whole numbers, for which binary floating *)
(* point is exact; binary rounding of fractional quantities is not         *)
(* modelled.                                                               *)
(*                                                                         *)
(* Strings that the code transforms (price strings, account identifiers)   *)
(* are sequences of one-character strings.  A date string "MM/DD/YY" is    *)
(* the triple <<MM, DD, YY>> of its three number fields.                   *)
(*                                                                         *)
(* Table rows.  The columns "Account ID" and "Stock Name" of the stocks    *)
(* table are fixed in Init.  The other three columns of a row are inputs   *)
(* that process_account reads exactly once, when iterrows reaches the row; *)
(* they are drawn at that step.                                            *)
(***************************************************************************)
EXTENDS Integers, Sequences, FiniteSets, TLC

VARIABLES
    table,          \* rows of the stocks table: [acct, stock]
    mode,           \* entry point in use: "none", "api", "interactive"
    pc,             \* "idle", "replay" (inside process_account), "done"
    account_id,     \* the account identifier the entry point ended up with
    df,             \* "Stock Name" column of the fetched frame, in row order
    si,             \* position in df["Stock Name"].unique() of the current stock
    k,              \* rows of the current stock's frame already iterated
    tx,             \* history: the row iterrows yielded last, after cleaning
    raw_price,      \* history: the "Stock Price" string of that row as stored
    inventory,      \* lot queue of the current stock
    stocks_summary, \* report rows compiled so far
    evaluation,     \* result of the last evaluate_tax_loss_harvesting call
    eval_times,     \* clock reading used for each batch of that call
    now,            \* last reading of the wall clock, in ticks
    summary_df,     \* what process_account returned: <<>> or <<rows>>
    response,       \* what the entry point handed to its caller
    failure,        \* which exception ended the call, "none" if none
    fetched,        \* fetch_transactions has been called
    accepted,       \* history: lots appended for the current stock
    sold,           \* history: total quantity of the sell rows of the current stock
    dropped         \* history: buy rows of the current stock skipped for their price

vars == <<table, mode, pc, account_id, df, si, k, tx, raw_price, inventory,
          stocks_summary, evaluation, eval_times, now, summary_df, response,
          failure, fetched, accepted, sold, dropped>>

----------------------------------------------------------------------------
(* Bounds of the model *)

MaxRows == 3            \* rows in the stocks table
MaxLen == 3             \* length of the generated price strings
TicksPerDay == 2        \* resolution of the wall clock

----------------------------------------------------------------------------
(* Floats as exact decimals *)

RECURSIVE Pow10(_)
Pow10(n) == IF n = 0 THEN 1 ELSE 10 * Pow10(n - 1)

NaN == [nan |-> TRUE, m |-> 0, e |-> 0]

RECURSIVE Norm(_, _)
Norm(m, e) ==
    IF e > 0 /\ m % 10 = 0 THEN Norm(m \div 10, e - 1)
    ELSE [nan |-> FALSE, m |-> m, e |-> e]

Dec(m, e) == Norm(m, e)
Num(n) == Dec(n, 0)
Zero == Num(0)

Max(a, b) == IF a >= b THEN a ELSE b
Scaled(x, e) == x.m * Pow10(e - x.e)

FAdd(x, y) ==
    IF x.nan \/ y.nan THEN NaN
    ELSE LET e == Max(x.e, y.e) IN Norm(Scaled(x, e) + Scaled(y, e), e)
FSub(x, y) ==
    IF x.nan \/ y.nan THEN NaN
    ELSE LET e == Max(x.e, y.e) IN Norm(Scaled(x, e) - Scaled(y, e), e)
FMul(x, y) ==
    IF x.nan \/ y.nan THEN NaN ELSE Norm(x.m * y.m, x.e + y.e)
FAbs(x) == IF x.nan THEN NaN ELSE [x EXCEPT !.m = IF @ < 0 THEN -@ ELSE @]
\* comparisons with NaN are false
FLt(x, y) == ~x.nan /\ ~y.nan /\ LET e == Max(x.e, y.e) IN Scaled(x, e) < Scaled(y, e)
FLe(x, y) == ~x.nan /\ ~y.nan /\ LET e == Max(x.e, y.e) IN Scaled(x, e) <= Scaled(y, e)
FGt(x, y) == FLt(y, x)

----------------------------------------------------------------------------
(* fetch_transactions: cleaning of the fetched columns *)

Digits == <<"0", "1", "2", "3", "4", "5", "6", "7", "8", "9">>
IsDigit(c) == \E i \in 1..Len(Digits) : Digits[i] = c
DigitVal(c) == (CHOOSE i \in 1..Len(Digits) : Digits[i] = c) - 1

\* the pattern [^\d] in place of [^\d.]: the decimal point is removed too
IsDigitOnly(c) == IsDigit(c)

\* the characters the pattern [^\d.] leaves in place
IsDigitOrDot(c) == IsDigit(c) \/ c = "."

\* .str.replace(r"[^\d.]", "", regex=True)
CleanPrice(s) == SelectSeq(s, IsDigitOrDot)

RECURSIVE DigitsValue(_)
DigitsValue(ds) ==
    IF ds = <<>> THEN 0
    ELSE 10 * DigitsValue(SubSeq(ds, 1, Len(ds) - 1)) + DigitVal(ds[Len(ds)])

\* pd.to_numeric(errors="coerce") on a string of digits and points: a number
\* needs at least one digit and at most one point, anything else is NaN
ToNumeric(s) ==
    LET dots == {i \in 1..Len(s) : s[i] = "."}
        ds == SelectSeq(s, IsDigit)
    IN  IF Cardinality(dots) > 1 \/ ds = <<>> THEN NaN
        ELSE IF dots = {} THEN Dec(DigitsValue(ds), 0)
        ELSE LET p == CHOOSE i \in dots : TRUE
             IN  Dec(DigitsValue(ds), Len(s) - p)

\* the cleaned "Stock Price" of a row
ParsePrice(s) == ToNumeric(CleanPrice(s))

\* pd.to_numeric(errors="coerce") on "Number of Shares": a stored number is
\* kept, NULL or text that is no number becomes NaN
SharesToNumeric(r) == IF r.numeric THEN Num(r.v) ELSE NaN

\* the frame of one account: the rows whose "Account ID" equals the identifier
RECURSIVE FetchStocks(_, _)
FetchStocks(rows, acct) ==
    IF rows = <<>> THEN <<>>
    ELSE (IF rows[1].acct = acct THEN <<rows[1].stock>> ELSE <<>>)
         \o FetchStocks(Tail(rows), acct)

\* Series.unique(): the distinct values in order of first appearance
RECURSIVE Unique(_)
Unique(s) ==
    IF s = <<>> THEN <<>>
    ELSE LET u == Unique(SubSeq(s, 1, Len(s) - 1))
             x == s[Len(s)]
         IN  IF \E i \in 1..Len(u) : u[i] = x THEN u ELSE Append(u, x)

\* number of rows of transactions_df[transactions_df["Stock Name"] == name]
NumRows(s, name) == Cardinality({i \in 1..Len(s) : s[i] = name})

----------------------------------------------------------------------------
(* Dates: datetime.strptime(text, "%m/%d/%y") and timedelta.days *)

IsLeap(y) == y % 4 = 0 /\ (y % 100 # 0 \/ y % 400 = 0)

DaysInMonth(y, m) ==
    IF m = 2 THEN (IF IsLeap(y) THEN 29 ELSE 28)
    ELSE IF m \in {4, 6, 9, 11} THEN 30 ELSE 31

\* %y: two-digit years 69..99 are 19xx, 00..68 are 20xx
FullYear(yy) == IF yy >= 69 THEN 1900 + yy ELSE 2000 + yy

\* strptime raises ValueError on a month or day out of range
ValidDate(d) ==
    /\ d[1] \in 1..12
    /\ d[3] \in 0..99
    /\ d[2] \in 1..DaysInMonth(FullYear(d[3]), d[1])

RECURSIVE DaysBeforeMonth(_, _)
DaysBeforeMonth(y, m) ==
    IF m = 1 THEN 0 ELSE DaysBeforeMonth(y, m - 1) + DaysInMonth(y, m - 1)

DaysBeforeYear(y) ==
    (y - 1) * 365 + (y - 1) \div 4 - (y - 1) \div 100 + (y - 1) \div 400

\* proleptic Gregorian ordinal of the parsed date (midnight of that day)
Ordinal(d) ==
    LET y == FullYear(d[3])
    IN  DaysBeforeYear(y) + DaysBeforeMonth(y, d[1]) + d[2]

\* (datetime.now() - purchase_date).days: whole days, rounded down
HoldingPeriod(t, d) == (t - TicksPerDay * Ordinal(d)) \div TicksPerDay

----------------------------------------------------------------------------
(* Inputs *)

Stocks == {"X", "Y"}
\* rows of account A, and a row of another account
TableRows == [acct : {<<"A">>}, stock : Stocks] \cup {[acct |-> <<"B">>, stock |-> "X"]}
\* stock names are labels: the table's first row, if any, is a row of X
Tables == {t \in UNION {[1..n -> TableRows] : n \in 0..MaxRows} :
              t # <<>> => t[1].stock = "X"}

\* payload.account_id of a request that passed validation of the body
PayloadIds == {<<>>, <<"A">>}
\* --account_id on the command line: absent, empty, or an identifier
Args == {[given |-> FALSE, value |-> <<>>],
         [given |-> TRUE, value |-> <<>>],
         [given |-> TRUE, value |-> <<"A">>]}
\* the line typed at the prompt
TypedLines == {<<>>, <<" ">>, <<"A">>, <<" ", "A", " ">>}

\* "Number of Shares" as stored: whole numbers, or something that is no number
RawShares == {[numeric |-> TRUE, v |-> n] : n \in {-3, -1, 0, 1, 2}}
                \cup {[numeric |-> FALSE, v |-> 0]}
\* "Stock Price" as stored: "$1.50", "3", "n/a"
RawPrices == {<<"$", "1", ".", "5", "0">>, <<"3">>, <<"n", "/", "a">>}
\* generated "Stock Price" strings: every string over the alphabet up to MaxLen,
\* and "$123.45", "n/a", "1,234.50"
PriceAlphabet == {"$", "1", "5", ".", ",", "n"}
AllRawPrices ==
    UNION {[1..n -> PriceAlphabet] : n \in 0..MaxLen}
    \cup {<<"$", "1", "2", "3", ".", "4", "5">>, <<"n", "/", "a">>,
          <<"1", ",", "2", "3", "4", ".", "5", "0">>}
\* lines 31-32 on the column: the cleaned price of every stored string
CleanedPrices == [rp \in RawPrices \cup AllRawPrices |-> ParsePrice(rp)]
\* "Date Purchased" as stored: 11/03/25 and 02/30/25 (no such day)
Dates == {<<11, 3, 25>>, <<2, 30, 25>>}

\* what the price source answers when it answers: 2.5, between the two lot prices
CurrentPrices == {Dec(25, 1)}

\* the clock starts at the last tick of 11/03/26 and may reach the midnight after
StartDate == <<11, 3, 26>>
Deadline == TicksPerDay * (Ordinal(StartDate) + 1)
StartNow == Deadline - 1

\* successive readings of datetime.now(), one per batch, from t0 on
ClockReadings(n, t0) ==
    {f \in [1..n -> t0..Deadline] : \A i \in 1..n, j \in 1..n : i <= j => f[i] <= f[j]}

----------------------------------------------------------------------------
(* process_account, lines 106-131: one transaction against the lot queue *)

\* Consume with line 127 lost: a lot that is used up does not reduce what is
\* left to sell
RECURSIVE ConsumeNoSubtract(_, _, _)
ConsumeNoSubtract(inv, sell_quantity, iters) ==
    IF ~FGt(sell_quantity, Zero)
    THEN [inventory |-> inv, raised |-> FALSE, iters |-> iters]
    ELSE IF inv = <<>>
    THEN [inventory |-> inv, raised |-> TRUE, iters |-> iters + 1]
    ELSE LET batch == inv[1]
         IN  IF FLe(batch.quantity, sell_quantity)
             THEN ConsumeNoSubtract(Tail(inv), sell_quantity, iters + 1)
             ELSE ConsumeNoSubtract(
                      <<[batch EXCEPT !.quantity = FSub(@, sell_quantity)]>>
                          \o Tail(inv),
                      Zero, iters + 1)

\* Consume taking inventory[-1] and pop(): the newest lot is sold first
RECURSIVE ConsumeFromTail(_, _, _)
ConsumeFromTail(inv, sell_quantity, iters) ==
    IF ~FGt(sell_quantity, Zero)
    THEN [inventory |-> inv, raised |-> FALSE, iters |-> iters]
    ELSE IF inv = <<>>
    THEN [inventory |-> inv, raised |-> TRUE, iters |-> iters + 1]
    ELSE LET batch == inv[Len(inv)]
             rest == SubSeq(inv, 1, Len(inv) - 1)
         IN  IF FLe(batch.quantity, sell_quantity)
             THEN ConsumeFromTail(rest, FSub(sell_quantity, batch.quantity),
                                  iters + 1)
             ELSE ConsumeFromTail(
                      Append(rest, [batch EXCEPT !.quantity = FSub(@, sell_quantity)]),
                      Zero, iters + 1)

\* Consume with < in place of <= at line 126: a lot sold out exactly stays in the
\* queue with quantity 0
RECURSIVE ConsumeStrict(_, _, _)
ConsumeStrict(inv, sell_quantity, iters) ==
    IF ~FGt(sell_quantity, Zero)
    THEN [inventory |-> inv, raised |-> FALSE, iters |-> iters]
    ELSE IF inv = <<>>
    THEN [inventory |-> inv, raised |-> TRUE, iters |-> iters + 1]
    ELSE LET batch == inv[1]
         IN  IF FLt(batch.quantity, sell_quantity)
             THEN ConsumeStrict(Tail(inv), FSub(sell_quantity, batch.quantity),
                                iters + 1)
             ELSE ConsumeStrict(
                      <<[batch EXCEPT !.quantity = FSub(@, sell_quantity)]>>
                          \o Tail(inv),
                      Zero, iters + 1)

\* Consume with lines 130-131 taking one share per iteration from the head lot
RECURSIVE ConsumeByUnits(_, _, _)
ConsumeByUnits(inv, sell_quantity, iters) ==
    IF ~FGt(sell_quantity, Zero)
    THEN [inventory |-> inv, raised |-> FALSE, iters |-> iters]
    ELSE IF inv = <<>>
    THEN [inventory |-> inv, raised |-> TRUE, iters |-> iters + 1]
    ELSE LET batch == inv[1]
         IN  IF FLe(batch.quantity, sell_quantity)
             THEN ConsumeByUnits(Tail(inv), FSub(sell_quantity, batch.quantity),
                                 iters + 1)
             ELSE ConsumeByUnits(
                      <<[batch EXCEPT !.quantity = FSub(@, Num(1))]>> \o Tail(inv),
                      FSub(sell_quantity, Num(1)), iters + 1)

\* the while loop of a sell; iters counts the executions of its body
RECURSIVE Consume(_, _, _)
Consume(inv, sell_quantity, iters) ==
    IF ~FGt(sell_quantity, Zero)
    THEN [inventory |-> inv, raised |-> FALSE, iters |-> iters]
    ELSE IF inv = <<>>
    THEN [inventory |-> inv, raised |-> TRUE, iters |-> iters + 1]
    ELSE LET batch == inv[1]
         IN  IF FLe(batch.quantity, sell_quantity)
             THEN Consume(Tail(inv), FSub(sell_quantity, batch.quantity), iters + 1)
             ELSE Consume(<<[batch EXCEPT !.quantity = FSub(@, sell_quantity)]>>
                              \o Tail(inv),
                          Zero, iters + 1)

\* ApplyTx without lines 112-113: a buy without a price is queued like any other
ApplyTxNoSkip(inv, row) ==
    LET num_shares == row.shares
        stock_price == row.price
    IN  IF FGt(num_shares, Zero)
        THEN [inventory |-> Append(inv, [quantity |-> num_shares,
                                         price_per_unit |-> stock_price,
                                         date_purchased |-> row.date]),
              raised |-> FALSE, iters |-> 0]
        ELSE IF FLt(num_shares, Zero)
        THEN Consume(inv, FAbs(num_shares), 0)
        ELSE [inventory |-> inv, raised |-> FALSE, iters |-> 0]

\* ApplyTx with >= in place of > at line 111: a row of zero shares is a buy
ApplyTxZeroIsBuy(inv, row) ==
    LET num_shares == row.shares
        stock_price == row.price
    IN  IF FGt(num_shares, Zero) \/ num_shares = Zero
        THEN IF stock_price.nan
             THEN [inventory |-> inv, raised |-> FALSE, iters |-> 0]
             ELSE [inventory |-> Append(inv, [quantity |-> num_shares,
                                              price_per_unit |-> stock_price,
                                              date_purchased |-> row.date]),
                   raised |-> FALSE, iters |-> 0]
        ELSE IF FLt(num_shares, Zero)
        THEN Consume(inv, FAbs(num_shares), 0)
        ELSE [inventory |-> inv, raised |-> FALSE, iters |-> 0]

ApplyTx(inv, row) ==
    LET num_shares == row.shares
        stock_price == row.price      \* NaN stands for None
    IN  IF FGt(num_shares, Zero)
        THEN IF stock_price.nan
             THEN [inventory |-> inv, raised |-> FALSE, iters |-> 0]
             ELSE [inventory |-> Append(inv, [quantity |-> num_shares,
                                              price_per_unit |-> stock_price,
                                              date_purchased |-> row.date]),
                   raised |-> FALSE, iters |-> 0]
        ELSE IF FLt(num_shares, Zero)
        THEN Consume(inv, FAbs(num_shares), 0)
        ELSE [inventory |-> inv, raised |-> FALSE, iters |-> 0]

----------------------------------------------------------------------------
(* evaluate_tax_loss_harvesting *)

\* line 66 without the quantity: the difference of the prices of one share
PotentialGainLossPerShare(batch, current_price) ==
    FSub(current_price, batch.price_per_unit)

\* line 66
PotentialGainLoss(batch, current_price) ==
    FMul(FSub(current_price, batch.price_per_unit), batch.quantity)

\* line 67 with < in place of <=
ExcludedBelowAYear(holding_period) == holding_period < 365

\* line 67
ExcludedDueToDate(holding_period) == holding_period <= 365

\* lines 73-74 as an assignment of the condition: the last batch decides
HarvestFlagOfLastBatch(flag, potential_gain_loss, excluded_due_to_date) ==
    FLt(potential_gain_loss, Zero) /\ ~excluded_due_to_date

\* lines 70-74: the flag after one more batch
HarvestFlag(flag, potential_gain_loss, excluded_due_to_date) ==
    LET is_loss == FLt(potential_gain_loss, Zero)
    IN  IF is_loss /\ ~excluded_due_to_date THEN TRUE ELSE flag

\* the loop of lines 62-83 from batch i on; times[i] is datetime.now() for batch i
RECURSIVE EvalLoop(_, _, _, _, _)
EvalLoop(inv, current_price, times, i, acc) ==
    IF i > Len(inv) THEN acc
    ELSE LET batch == inv[i]
             holding_period == HoldingPeriod(times[i], batch.date_purchased)
             potential_gain_loss == PotentialGainLoss(batch, current_price)
             excluded_due_to_date == ExcludedDueToDate(holding_period)
         IN  EvalLoop(inv, current_price, times, i + 1,
                 [results |-> Append(acc.results,
                                 [quantity |-> batch.quantity,
                                  price_per_unit |-> batch.price_per_unit,
                                  date_purchased |-> batch.date_purchased,
                                  potential_gain_loss |-> potential_gain_loss,
                                  excluded_due_to_date |-> excluded_due_to_date]),
                  total |-> FAdd(acc.total, potential_gain_loss),
                  flag |-> HarvestFlag(acc.flag, potential_gain_loss,
                                       excluded_due_to_date)])

evaluate_tax_loss_harvesting(inv, current_price, times) ==
    LET a == EvalLoop(inv, current_price, times, 1,
                      [results |-> <<>>, total |-> Zero, flag |-> FALSE])
    IN  [batch_results |-> a.results,
         total_potential_gain_loss |-> a.total,
         recommend_harvest |-> IF a.flag THEN "yes" ELSE "no"]

\* CompileRows with line 147 deciding row by row, from the row's own loss and flag
RECURSIVE CompileRowsPerLot(_, _, _, _, _)
CompileRowsPerLot(acct, name, current_price, ev, i) ==
    IF i > Len(ev.batch_results) THEN <<>>
    ELSE LET batch_result == ev.batch_results[i]
         IN  <<[account_id |-> acct,
                stock_ticker |-> name,
                number_of_shares_on_hand |-> batch_result.quantity,
                purchase_date |-> batch_result.date_purchased,
                purchase_price |-> batch_result.price_per_unit,
                current_stock_price |-> current_price,
                potential_loss_gain |-> batch_result.potential_gain_loss,
                excluded_due_to_purchase_date |->
                    IF batch_result.excluded_due_to_date THEN "yes" ELSE "no",
                recommend_for_tax_loss_harvesting |->
                    IF FLt(batch_result.potential_gain_loss, Zero)
                       /\ ~batch_result.excluded_due_to_date
                    THEN "yes" ELSE "no"]>>
             \o CompileRowsPerLot(acct, name, current_price, ev, i + 1)

\* CompileRows with insert(0, ...) in place of append: newest lot first
RECURSIVE CompileRowsNewestFirst(_, _, _, _, _)
CompileRowsNewestFirst(acct, name, current_price, ev, i) ==
    IF i > Len(ev.batch_results) THEN <<>>
    ELSE LET batch_result == ev.batch_results[i]
         IN  CompileRowsNewestFirst(acct, name, current_price, ev, i + 1)
             \o <<[account_id |-> acct,
                   stock_ticker |-> name,
                   number_of_shares_on_hand |-> batch_result.quantity,
                   purchase_date |-> batch_result.date_purchased,
                   purchase_price |-> batch_result.price_per_unit,
                   current_stock_price |-> current_price,
                   potential_loss_gain |-> batch_result.potential_gain_loss,
                   excluded_due_to_purchase_date |->
                       IF batch_result.excluded_due_to_date THEN "yes" ELSE "no",
                   recommend_for_tax_loss_harvesting |-> ev.recommend_harvest]>>

\* lines 137-148: the report rows of one stock
RECURSIVE CompileRows(_, _, _, _, _)
CompileRows(acct, name, current_price, ev, i) ==
    IF i > Len(ev.batch_results) THEN <<>>
    ELSE LET batch_result == ev.batch_results[i]
         IN  <<[account_id |-> acct,
                stock_ticker |-> name,
                number_of_shares_on_hand |-> batch_result.quantity,
                purchase_date |-> batch_result.date_purchased,
                purchase_price |-> batch_result.price_per_unit,
                current_stock_price |-> current_price,
                potential_loss_gain |-> batch_result.potential_gain_loss,
                excluded_due_to_purchase_date |->
                    IF batch_result.excluded_due_to_date THEN "yes" ELSE "no",
                recommend_for_tax_loss_harvesting |-> ev.recommend_harvest]>>
             \o CompileRows(acct, name, current_price, ev, i + 1)

----------------------------------------------------------------------------
(* State machine *)

NoRow == [shares |-> NaN, price |-> NaN, date |-> <<0, 0, 0>>]
NoEvaluation ==
    [batch_results |-> <<>>, total_potential_gain_loss |-> Zero,
     recommend_harvest |-> "no"]
NoResponse == [kind |-> "none", status |-> 0, rows |-> <<>>, detail |-> "none"]

Init ==
    /\ table \in Tables
    /\ mode = "none"
    /\ pc = "idle"
    /\ account_id = <<>>
    /\ df = <<>>
    /\ si = 1
    /\ k = 0
    /\ tx = NoRow
    /\ raw_price = <<>>
    /\ inventory = <<>>
    /\ stocks_summary = <<>>
    /\ evaluation = NoEvaluation
    /\ eval_times = <<>>
    /\ now = StartNow
    /\ summary_df = <<>>
    /\ response = NoResponse
    /\ failure = "none"
    /\ fetched = FALSE
    /\ accepted = <<>>
    /\ sold = Zero
    /\ dropped = 0

stock_names == Unique(df)
InStockLoop == pc = "replay" /\ si <= Len(stock_names)
stock_name == stock_names[si]

\* str.strip() on the typed line
IsSpace(c) == c = " "
RECURSIVE LStrip(_)
LStrip(s) == IF s # <<>> /\ IsSpace(s[1]) THEN LStrip(Tail(s)) ELSE s
RECURSIVE RStrip(_)
RStrip(s) ==
    IF s # <<>> /\ IsSpace(s[Len(s)]) THEN RStrip(SubSeq(s, 1, Len(s) - 1)) ELSE s
Strip(s) == RStrip(LStrip(s))

\* Propagate of an entry point that answers with the rows compiled before the
\* exception
PropagatePartial(m, detail) ==
    IF m = "api"
    THEN [kind |-> "json", status |-> 200, rows |-> stocks_summary,
          detail |-> detail]
    ELSE [kind |-> "printed", status |-> 0, rows |-> stocks_summary,
          detail |-> detail]

\* what the entry point makes of an exception: the endpoint's except clause
\* answers 500 with the message, interactive mode dies with the traceback
Propagate(m, detail) ==
    IF m = "api"
    THEN [kind |-> "error", status |-> 500, rows |-> <<>>, detail |-> detail]
    ELSE [kind |-> "traceback", status |-> 1, rows |-> <<>>, detail |-> detail]

\* an exception leaves process_account (or the endpoint's try block)
Raise(m, detail) ==
    /\ pc' = "done"
    /\ failure' = detail
    /\ response' = Propagate(m, detail)
    /\ UNCHANGED summary_df

\* lines 98-103: fetch the frame and enter the loop over the stocks
BeginProcessAccount(a) ==
    /\ fetched' = TRUE
    /\ df' = FetchStocks(table, a)
    /\ si' = 1
    /\ k' = 0
    /\ inventory' = <<>>
    /\ stocks_summary' = <<>>
    /\ pc' = "replay"
    /\ UNCHANGED <<summary_df, response, failure>>

\* lines 156-166: POST /process_account
process_account_endpoint ==
    /\ pc = "idle"
    /\ \E a \in PayloadIds :
        /\ mode' = "api"
        /\ account_id' = a
        /\ IF a = <<>>
           THEN /\ Raise("api", "account")
                /\ UNCHANGED <<fetched, df, si, k, inventory, stocks_summary>>
           ELSE BeginProcessAccount(a)
    /\ UNCHANGED <<table, tx, raw_price, evaluation, eval_times, now, accepted,
                   sold, dropped>>

\* lines 186-188: interactive mode
main_interactive ==
    /\ pc = "idle"
    /\ \E arg \in Args, typed \in TypedLines :
        LET a == IF arg.given /\ arg.value # <<>> THEN arg.value ELSE Strip(typed)
        IN  /\ mode' = "interactive"
            /\ account_id' = a
            /\ BeginProcessAccount(a)
    /\ UNCHANGED <<table, tx, raw_price, evaluation, eval_times, now, accepted,
                   sold, dropped>>

\* lines 107-131 for the row iterrows yields, from its three columns as stored
\* keep says whether the history variables tx and raw_price follow the row
ReplayRow(rs, rp, d, keep) ==
    LET row == [shares |-> SharesToNumeric(rs), price |-> CleanedPrices[rp],
                date |-> d]
        r == ApplyTx(inventory, row)
    IN  /\ tx' = IF keep THEN row ELSE tx
        /\ raw_price' = IF keep THEN rp ELSE raw_price
        /\ k' = k + 1
        /\ inventory' = r.inventory
        /\ accepted' =
             IF FGt(row.shares, Zero) /\ ~row.price.nan
             THEN Append(accepted, [quantity |-> row.shares,
                                    price_per_unit |-> row.price,
                                    date_purchased |-> row.date])
             ELSE accepted
        /\ sold' = IF FLt(row.shares, Zero) THEN FAdd(sold, FAbs(row.shares))
                   ELSE sold
        /\ dropped' = IF FGt(row.shares, Zero) /\ row.price.nan
                      THEN dropped + 1 ELSE dropped
        /\ IF r.raised
           THEN Raise(mode, "inventory")
           ELSE UNCHANGED <<pc, failure, response, summary_df>>

\* lines 106-131: iterrows yields the next row of the current stock
IterRow(prices, keep) ==
    /\ InStockLoop
    /\ k < NumRows(df, stock_name)
    /\ \E rs \in RawShares, rp \in prices, d \in Dates : ReplayRow(rs, rp, d, keep)
    /\ UNCHANGED <<table, mode, account_id, df, si, stocks_summary, evaluation,
                   eval_times, now, fetched>>

\* PriceLookupFails with the exception caught in the loop: the stock is skipped
PriceLookupSkipsStock ==
    /\ InStockLoop
    /\ k = NumRows(df, stock_name)
    /\ failure' = "price"
    /\ si' = si + 1
    /\ IF si < Len(stock_names)
       THEN /\ k' = 0
            /\ inventory' = <<>>
            /\ accepted' = <<>>
            /\ sold' = Zero
            /\ dropped' = 0
       ELSE UNCHANGED <<k, inventory, accepted, sold, dropped>>
    /\ UNCHANGED <<table, mode, pc, account_id, df, tx, raw_price, stocks_summary,
                   evaluation, eval_times, now, summary_df, response, fetched>>

\* PriceLookupFails when the price is looked up only for a stock that has lots
PriceLookupOnlyWithLots ==
    /\ InStockLoop
    /\ k = NumRows(df, stock_name)
    /\ inventory # <<>>
    /\ Raise(mode, "price")
    /\ UNCHANGED <<table, mode, account_id, df, si, k, tx, raw_price, inventory,
                   stocks_summary, evaluation, eval_times, now, fetched, accepted,
                   sold, dropped>>

\* line 133 when get_current_stock_price raises
PriceLookupFails ==
    /\ InStockLoop
    /\ k = NumRows(df, stock_name)
    /\ Raise(mode, "price")
    /\ UNCHANGED <<table, mode, account_id, df, si, k, tx, raw_price, inventory,
                   stocks_summary, evaluation, eval_times, now, fetched, accepted,
                   sold, dropped>>

\* lines 133-134 when the price is found and strptime rejects a lot's date
EvaluationRaises ==
    /\ InStockLoop
    /\ k = NumRows(df, stock_name)
    /\ \E i \in 1..Len(inventory) : ~ValidDate(inventory[i].date_purchased)
    /\ Raise(mode, "date")
    /\ UNCHANGED <<table, mode, account_id, df, si, k, tx, raw_price, inventory,
                   stocks_summary, evaluation, eval_times, now, fetched, accepted,
                   sold, dropped>>

\* EvaluateWith without line 103: the queue of one stock is carried into the next
EvaluateKeepsInventory(prices) ==
    /\ InStockLoop
    /\ k = NumRows(df, stock_name)
    /\ \A i \in 1..Len(inventory) : ValidDate(inventory[i].date_purchased)
    /\ \E current_price \in prices,
          times \in ClockReadings(Len(inventory), now) :
        LET ev == evaluate_tax_loss_harvesting(inventory, current_price, times)
        IN  /\ evaluation' = ev
            /\ eval_times' = times
            /\ now' = IF Len(inventory) = 0 THEN now ELSE times[Len(inventory)]
            /\ stocks_summary' = stocks_summary
                   \o CompileRows(account_id, stock_name, current_price, ev, 1)
    /\ si' = si + 1
    /\ IF si < Len(stock_names)
       THEN /\ k' = 0
            /\ inventory' = inventory
            /\ accepted' = <<>>
            /\ sold' = Zero
            /\ dropped' = 0
       ELSE UNCHANGED <<k, inventory, accepted, sold, dropped>>
    /\ UNCHANGED <<table, mode, pc, account_id, df, tx, raw_price, summary_df,
                   response, failure, fetched>>

\* lines 133-148, and lines 101-103 for the stock that follows
EvaluateWith(prices) ==
    /\ InStockLoop
    /\ k = NumRows(df, stock_name)
    /\ \A i \in 1..Len(inventory) : ValidDate(inventory[i].date_purchased)
    /\ \E current_price \in prices,
          times \in ClockReadings(Len(inventory), now) :
        LET ev == evaluate_tax_loss_harvesting(inventory, current_price, times)
        IN  /\ evaluation' = ev
            /\ eval_times' = times
            /\ now' = IF Len(inventory) = 0 THEN now ELSE times[Len(inventory)]
            /\ stocks_summary' = stocks_summary
                   \o CompileRows(account_id, stock_name, current_price, ev, 1)
    /\ si' = si + 1
    /\ IF si < Len(stock_names)
       THEN /\ k' = 0
            /\ inventory' = <<>>
            /\ accepted' = <<>>
            /\ sold' = Zero
            /\ dropped' = 0
       ELSE UNCHANGED <<k, inventory, accepted, sold, dropped>>
    /\ UNCHANGED <<table, mode, pc, account_id, df, tx, raw_price, summary_df,
                   response, failure, fetched>>

EvaluateStock == EvaluateWith(CurrentPrices)

\* lines 151-152, then lines 167-168 or line 189
Return ==
    /\ pc = "replay"
    /\ si > Len(stock_names)
    /\ pc' = "done"
    /\ summary_df' = <<stocks_summary>>
    /\ response' = IF mode = "api"
                   THEN [kind |-> "json", status |-> 200, rows |-> stocks_summary,
                         detail |-> "none"]
                   ELSE [kind |-> "printed", status |-> 0, rows |-> stocks_summary,
                         detail |-> "none"]
    /\ UNCHANGED <<table, mode, account_id, df, si, k, tx, raw_price, inventory,
                   stocks_summary, evaluation, eval_times, now, failure, fetched,
                   accepted, sold, dropped>>

Next ==
    \/ process_account_endpoint
    \/ main_interactive
    \/ IterRow(RawPrices, FALSE)
    \/ PriceLookupFails
    \/ EvaluationRaises
    \/ EvaluateStock
    \/ Return

Spec == Init /\ [][Next]_vars

----------------------------------------------------------------------------
(* One-row frames with generated price strings; tx and raw_price follow the row *)

InitRow ==
    /\ Init
    /\ table = <<[acct |-> <<"A">>, stock |-> "X"]>>

NextRow ==
    \/ process_account_endpoint
    \/ main_interactive
    \/ IterRow(AllRawPrices, TRUE)
    \/ PriceLookupFails
    \/ EvaluationRaises
    \/ EvaluateStock
    \/ Return

SpecRow == InitRow /\ [][NextRow]_vars

----------------------------------------------------------------------------
(* Tables whose rows are stored with all their columns: iterrows yields the     *)
(* rows of the current stock in table order                                     *)

\* "Number of Shares", "Stock Price", "Date Purchased" of a stored row: buys of 3
\* at "3" and of 1 at "$1.50" bought earlier, sells of 1 and of 2, and a buy whose
\* date names no day
StoredColumns ==
    {[shares |-> [numeric |-> TRUE, v |-> 3], price |-> <<"3">>,
      date |-> <<11, 3, 25>>],
     [shares |-> [numeric |-> TRUE, v |-> 1], price |-> <<"$", "1", ".", "5", "0">>,
      date |-> <<1, 2, 24>>],
     [shares |-> [numeric |-> TRUE, v |-> -1], price |-> <<"3">>,
      date |-> <<11, 3, 25>>],
     [shares |-> [numeric |-> TRUE, v |-> -2], price |-> <<"3">>,
      date |-> <<11, 3, 25>>],
     [shares |-> [numeric |-> TRUE, v |-> 1], price |-> <<"3">>,
      date |-> <<2, 30, 25>>]}

StoredRows ==
    {[acct |-> <<"A">>, stock |-> s, shares |-> c.shares, price |-> c.price,
      date |-> c.date] : s \in Stocks, c \in StoredColumns}
    \cup {[acct |-> <<"B">>, stock |-> "X", shares |-> [numeric |-> TRUE, v |-> 3],
           price |-> <<"3">>, date |-> <<11, 3, 25>>]}

StoredTables == {t \in UNION {[1..n -> StoredRows] : n \in 0..MaxRows} :
                    t # <<>> => t[1].stock = "X"}

\* what the price source answers in these runs: 2.5 or 1
StoredCurrentPrices == {Dec(25, 1), Num(1)}

\* lines 25 and 102: the rows of one account and one stock, in table order
RECURSIVE StockFrame(_, _, _)
StockFrame(rows, acct, name) ==
    IF rows = <<>> THEN <<>>
    ELSE (IF rows[1].acct = acct /\ rows[1].stock = name THEN <<rows[1]>> ELSE <<>>)
         \o StockFrame(Tail(rows), acct, name)

stock_transactions == StockFrame(table, account_id, stock_name)

InitStored ==
    /\ table \in StoredTables
    /\ mode = "none"
    /\ pc = "idle"
    /\ account_id = <<>>
    /\ df = <<>>
    /\ si = 1
    /\ k = 0
    /\ tx = NoRow
    /\ raw_price = <<>>
    /\ inventory = <<>>
    /\ stocks_summary = <<>>
    /\ evaluation = NoEvaluation
    /\ eval_times = <<>>
    /\ now = StartNow
    /\ summary_df = <<>>
    /\ response = NoResponse
    /\ failure = "none"
    /\ fetched = FALSE
    /\ accepted = <<>>
    /\ sold = Zero
    /\ dropped = 0

\* a frame sorted by "Date Purchased", rows of one date in table order
RECURSIVE InsertByDate(_, _)
InsertByDate(sorted, r) ==
    IF sorted = <<>> THEN <<r>>
    ELSE IF Ordinal(sorted[Len(sorted)].date) <= Ordinal(r.date) THEN Append(sorted, r)
    ELSE Append(InsertByDate(SubSeq(sorted, 1, Len(sorted) - 1), r),
                sorted[Len(sorted)])

RECURSIVE SortByDate(_)
SortByDate(rows) ==
    IF rows = <<>> THEN <<>>
    ELSE InsertByDate(SortByDate(SubSeq(rows, 1, Len(rows) - 1)), rows[Len(rows)])

\* IterStoredRow on a frame that was sorted by date first
IterStoredByDate ==
    /\ InStockLoop
    /\ k < Len(stock_transactions)
    /\ LET r == SortByDate(stock_transactions)[k + 1]
       IN  ReplayRow(r.shares, r.price, r.date, FALSE)
    /\ UNCHANGED <<table, mode, account_id, df, si, stocks_summary, evaluation,
                   eval_times, now, fetched>>

\* lines 106-131: iterrows yields the next stored row of the current stock
IterStoredRow ==
    /\ InStockLoop
    /\ k < Len(stock_transactions)
    /\ LET r == stock_transactions[k + 1]
       IN  ReplayRow(r.shares, r.price, r.date, FALSE)
    /\ UNCHANGED <<table, mode, account_id, df, si, stocks_summary, evaluation,
                   eval_times, now, fetched>>

EvaluateStoredStock == EvaluateWith(StoredCurrentPrices)

NextStored ==
    \/ process_account_endpoint
    \/ main_interactive
    \/ IterStoredRow
    \/ PriceLookupFails
    \/ EvaluationRaises
    \/ EvaluateStoredStock
    \/ Return

SpecStored == InitStored /\ [][NextStored]_vars

----------------------------------------------------------------------------
(* Vocabulary of the properties *)

RECURSIVE SumQty(_)
SumQty(lots) == IF lots = <<>> THEN Zero ELSE FAdd(lots[1].quantity, SumQty(Tail(lots)))

\* total quantity of the buys of the current stock that carried a usable price
Bought == SumQty(accepted)

\* a step in which iterrows yields a row
RowStep == pc = "replay" /\ k' = k + 1

\* the rows of the current stock have all been replayed
SequenceDone == InStockLoop /\ k = NumRows(df, stock_name)

ReportReturned == response.kind \in {"json", "printed"}
NothingReturned ==
    /\ summary_df = <<>>
    /\ response.kind \in {"error", "traceback"}
    /\ response.rows = <<>>

----------------------------------------------------------------------------
(* C1-C4: the Lot Tracker *)

\* C1: a call ends with "Not enough stock to sell" only if the sell rows of the
\* stock add up to more than its buys with a usable price, that is, only if the
\* failing sell asked for more than the queue held; and as long as no sell
\* failed, the quantities of the lots in the queue add up to the usable buys minus
\* the sells.
C1_LotBalance ==
    /\ failure = "inventory" => FGt(sold, Bought)
    /\ failure # "inventory" => SumQty(inventory) = FSub(Bought, sold)

\* a whole sequence of three rows with a buy, a dropped buy and a sell
C1_Witness ==
    /\ SequenceDone
    /\ k >= 3
    /\ failure = "none"
    /\ dropped = 1
    /\ sold = Num(1)
    /\ SumQty(inventory) = Num(1)

\* C2: as long as no sell failed, the queue is a contiguous suffix of the accepted
\* buys in their order; every lot has the price and date of its buy, every lot
\* but the first has its quantity too, and the first has at most that quantity.
C2_FifoSuffix ==
    failure # "inventory" =>
        \E j \in 0..Len(accepted) :
            /\ Len(inventory) = Len(accepted) - j
            /\ \A i \in 1..Len(inventory) :
                LET a == accepted[j + i]
                    b == inventory[i]
                IN  /\ b.price_per_unit = a.price_per_unit
                    /\ b.date_purchased = a.date_purchased
                    /\ i > 1 => b.quantity = a.quantity
                    /\ i = 1 => FLe(b.quantity, a.quantity)

\* buys of 2 and 2 with different prices and dates, then a sell of 3: one lot of 1
\* with the second buy's price and date
C2_Witness ==
    /\ failure = "none"
    /\ Len(accepted) = 2
    /\ accepted[1].quantity = Num(2)
    /\ accepted[2].quantity = Num(2)
    /\ accepted[1].price_per_unit # accepted[2].price_per_unit
    /\ accepted[1].date_purchased # accepted[2].date_purchased
    /\ sold = Num(3)
    /\ inventory = <<[accepted[2] EXCEPT !.quantity = Num(1)]>>

\* C3: when the sells of a stock exceed its usable buys the call has failed with
\* the inventory error, and a call that failed so returned nothing: no frame from
\* process_account, and an answer of the entry point without any row.
C3_OversellFatal ==
    /\ FGt(sold, Bought) => failure = "inventory"
    /\ failure = "inventory" => NothingReturned

\* the failing stock had lots, and rows of an earlier stock were already compiled
C3_Witness ==
    /\ failure = "inventory"
    /\ accepted # <<>>
    /\ stocks_summary # <<>>
    /\ NothingReturned

\* C4: a buy row without a usable price leaves the queue as it was and raises
\* nothing; no lot without a price is ever in the queue; and sells are counted
\* against the accepted buys only, so that selling more than those fails even
\* when a dropped buy came before.
C4_DroppedBuy ==
    /\ [][RowStep /\ dropped' = dropped + 1
            => inventory' = inventory /\ failure' = "none" /\ pc' = "replay"]_vars
    /\ [](\A i \in 1..Len(inventory) : ~inventory[i].price_per_unit.nan)
    /\ [](dropped > 0 /\ FGt(sold, Bought) => failure = "inventory")

\* a sell that only the dropped buy could have covered has failed
C4_Witness ==
    /\ dropped = 1
    /\ accepted = <<>>
    /\ sold = Num(1)
    /\ failure = "inventory"

----------------------------------------------------------------------------
(* C5-C7: the Harvest Evaluator and the report rows *)

IsQualifyingLoss(r) == FLt(r.potential_gain_loss, Zero) /\ ~r.excluded_due_to_date

\* C5: the evaluator answers "yes" exactly when some batch of its result has a
\* negative potential_gain_loss and is not excluded, whatever the total is.
C5_LotTriggered ==
    /\ evaluation.recommend_harvest \in {"yes", "no"}
    /\ evaluation.recommend_harvest = "yes"
         <=> \E i \in 1..Len(evaluation.batch_results) :
                 IsQualifyingLoss(evaluation.batch_results[i])

\* one qualifying loss, then a larger gain: "yes" with a positive total
C5_Witness ==
    /\ Len(evaluation.batch_results) = 2
    /\ IsQualifyingLoss(evaluation.batch_results[1])
    /\ FGt(evaluation.batch_results[2].potential_gain_loss, Zero)
    /\ FGt(evaluation.total_potential_gain_loss, Zero)
    /\ evaluation.recommend_harvest = "yes"

\* C6: a batch is excluded exactly when the whole days from its purchase date to
\* the clock reading taken for it are at most 365.  A lot of 11/03/25 read on
\* 11/03/26 is 365 days old and excluded; read at midnight of 11/04/26 it is 366
\* days old and not excluded.
C6_HoldingBoundary ==
    /\ Len(eval_times) = Len(evaluation.batch_results)
    /\ \A i \in 1..Len(evaluation.batch_results) :
        LET r == evaluation.batch_results[i]
            t == eval_times[i]
        IN  /\ r.excluded_due_to_date <=> HoldingPeriod(t, r.date_purchased) <= 365
            /\ r.date_purchased = <<11, 3, 25>> /\ t < Deadline
                 => r.excluded_due_to_date
            /\ r.date_purchased = <<11, 3, 25>> /\ t = Deadline
                 => ~r.excluded_due_to_date

\* a loss at 365 days is excluded, a gain at 366 days is not
C6_Witness ==
    \E i, j \in 1..Len(evaluation.batch_results) :
        LET ri == evaluation.batch_results[i]
            rj == evaluation.batch_results[j]
        IN  /\ HoldingPeriod(eval_times[i], ri.date_purchased) = 365
            /\ ri.excluded_due_to_date
            /\ FLt(ri.potential_gain_loss, Zero)
            /\ HoldingPeriod(eval_times[j], rj.date_purchased) = 366
            /\ ~rj.excluded_due_to_date
            /\ FGt(rj.potential_gain_loss, Zero)

HasTotal(row) == "total_potential_gain_loss" \in DOMAIN row

\* C7 as stated: every row of a returned report carries total_potential_gain_loss
\* and the recommendation, the same in all rows of a stock.
C7_RowsRepeatBothAggregates ==
    ReportReturned =>
        \A i \in 1..Len(response.rows) :
            /\ HasTotal(response.rows[i])
            /\ \A j \in 1..Len(response.rows) :
                response.rows[i].stock_ticker = response.rows[j].stock_ticker
                => /\ response.rows[i].recommend_for_tax_loss_harvesting
                        = response.rows[j].recommend_for_tax_loss_harvesting
                   /\ response.rows[i].total_potential_gain_loss
                        = response.rows[j].total_potential_gain_loss

\* C7 amended: the rows of a stock all carry the same recommendation, the
\* recommend_harvest of the stock's evaluation; no row carries the total; and a
\* returned report is these rows.
C7_RowsRepeatRecommendation ==
    /\ \A i, j \in 1..Len(stocks_summary) :
        stocks_summary[i].stock_ticker = stocks_summary[j].stock_ticker
        => stocks_summary[i].recommend_for_tax_loss_harvesting
             = stocks_summary[j].recommend_for_tax_loss_harvesting
    /\ pc # "idle" /\ si > 1 =>
        \A i \in 1..Len(stocks_summary) :
            stocks_summary[i].stock_ticker = stock_names[si - 1]
            => stocks_summary[i].recommend_for_tax_loss_harvesting
                 = evaluation.recommend_harvest
    /\ \A i \in 1..Len(stocks_summary) : ~HasTotal(stocks_summary[i])
    /\ ReportReturned => response.rows = stocks_summary

\* a returned report: two rows of one stock, of different gain, both "yes", and a
\* row of another stock with "no"
C7_Witness ==
    /\ ReportReturned
    /\ Len(response.rows) = 3
    /\ response.rows[1].stock_ticker = response.rows[2].stock_ticker
    /\ response.rows[1].stock_ticker # response.rows[3].stock_ticker
    /\ response.rows[1].potential_loss_gain # response.rows[2].potential_loss_gain
    /\ FGt(response.rows[2].potential_loss_gain, Zero)
    /\ response.rows[1].recommend_for_tax_loss_harvesting = "yes"
    /\ response.rows[2].recommend_for_tax_loss_harvesting = "yes"
    /\ response.rows[3].recommend_for_tax_loss_harvesting = "no"

----------------------------------------------------------------------------
(* C8-C9: the entry points and the price lookup *)

\* C8: an entry point that ended up with an empty account identifier has not
\* called fetch_transactions.
C8_EmptyIdRejected == pc # "idle" /\ account_id = <<>> => ~fetched

\* C9: a call in which the price lookup failed returned nothing, and no row of
\* the stock whose lookup failed was compiled.
C9_PriceFailureFatal ==
    failure = "price" =>
        /\ NothingReturned
        /\ \A i \in 1..Len(stocks_summary) :
            stocks_summary[i].stock_ticker # stock_name

\* the lookup failed after rows of an earlier stock had been compiled
C9_Witness ==
    /\ failure = "price"
    /\ stocks_summary # <<>>
    /\ inventory # <<>>
    /\ NothingReturned

----------------------------------------------------------------------------
(* C10: price strings, under SpecRow *)

DollarExample == <<"$", "1", "2", "3", ".", "4", "5">>

\* C10: the cleaned price of the row read is missing exactly when its string
\* holds no digit or more than one point; otherwise it is the number written by
\* the digits, with as many decimals as there are digits after the point.
\* "$123.45" gives 123.45 and "n/a" is missing.  A buy row with a missing price is
\* dropped, a buy row with a price is queued at that price.
C10_PriceCleaning ==
    k >= 1 =>
        LET dots == {i \in 1..Len(raw_price) : raw_price[i] = "."}
            ds == SelectSeq(raw_price, IsDigit)
            missing == ds = <<>> \/ Cardinality(dots) > 1
            decimals == Cardinality({i \in 1..Len(raw_price) :
                            IsDigit(raw_price[i]) /\ \E p \in dots : p < i})
        IN  /\ tx.price.nan <=> missing
            /\ ~missing => tx.price = Dec(DigitsValue(ds), decimals)
            /\ raw_price = DollarExample => tx.price = Dec(12345, 2)
            /\ raw_price = <<"n", "/", "a">> => tx.price.nan
            /\ FGt(tx.shares, Zero) /\ tx.price.nan
                 => accepted = <<>> /\ inventory = <<>> /\ dropped = 1
                    /\ failure # "inventory"
            /\ FGt(tx.shares, Zero) /\ ~tx.price.nan
                 => /\ Len(accepted) = 1
                    /\ accepted[1].price_per_unit = tx.price
                    /\ inventory = accepted
                    /\ dropped = 0

\* a buy at "$123.45" is queued at 123.45
C10_Witness ==
    /\ k = 1
    /\ raw_price = DollarExample
    /\ FGt(tx.shares, Zero)
    /\ Len(inventory) = 1
    /\ inventory[1].price_per_unit = Dec(12345, 2)

----------------------------------------------------------------------------
(* C11: quantities of the lots in the queue *)

\* C11: between transactions every lot in the queue has a quantity that is a
\* number greater than 0; and when the sells so far add up exactly to the first j
\* accepted buys, those j lots are gone and the queue is the remaining buys
\* untouched: a lot brought to exactly zero is removed, not kept at 0.
C11_PositiveLots ==
    /\ \A i \in 1..Len(inventory) :
        ~inventory[i].quantity.nan /\ FGt(inventory[i].quantity, Zero)
    /\ failure # "inventory" =>
        \A j \in 0..Len(accepted) :
            sold = SumQty(SubSeq(accepted, 1, j))
            => inventory = SubSeq(accepted, j + 1, Len(accepted))

\* two lots, and sells that add up to exactly the first: only the second is left
C11_Witness ==
    /\ failure = "none"
    /\ Len(accepted) = 2
    /\ FGt(sold, Zero)
    /\ sold = accepted[1].quantity
    /\ inventory = <<accepted[2]>>

----------------------------------------------------------------------------
(* C12: one queue per stock, under SpecStored *)

\* the cleaned columns of a stored row (lines 31-35)
Cleaned(r) ==
    [shares |-> SharesToNumeric(r.shares), price |-> CleanedPrices[r.price],
     date |-> r.date]

\* the first n rows of a frame replayed on their own, from an empty queue
RECURSIVE ReplayAlone(_, _)
ReplayAlone(rows, n) ==
    IF n = 0 THEN [inventory |-> <<>>, raised |-> FALSE]
    ELSE LET before == ReplayAlone(rows, n - 1)
         IN  IF before.raised THEN before
             ELSE LET r == ApplyTx(before.inventory, Cleaned(rows[n]))
                  IN  [inventory |-> r.inventory, raised |-> r.raised]

\* C12: while a stock is being processed its queue is what the rows of that
\* stock (and account) replayed alone give, however the rows of other stocks are
\* interleaved with them in the table; the queue is empty before the stock's
\* first row; and the inventory error occurs exactly when the stock's own rows
\* replayed alone raise it.
C12_PrivateQueue ==
    fetched /\ si <= Len(stock_names) =>
        LET alone == ReplayAlone(stock_transactions, k)
        IN  /\ k = 0 => inventory = <<>>
            /\ alone.raised <=> failure = "inventory"
            /\ ~alone.raised => inventory = alone.inventory

\* rows X, Y, X of one account: X left lots that are in the report, and the
\* queue of Y holds the one lot of Y's buy
C12_Witness ==
    /\ Len(table) >= 3
    /\ \A i \in 1..3 : table[i].acct = account_id
    /\ table[1].stock = "X" /\ table[2].stock = "Y" /\ table[3].stock = "X"
    /\ InStockLoop
    /\ stock_name = "Y"
    /\ k = 1
    /\ Len(stocks_summary) = 2
    /\ Len(inventory) = 1
    /\ inventory[1].quantity = Cleaned(table[2]).shares

----------------------------------------------------------------------------
(* C13: row order, under SpecStored *)

IsUsableBuy(row) == FGt(row.shares, Zero) /\ ~row.price.nan
IsSell(row) == FLt(row.shares, Zero)

\* the lots of the usable buys among the first n rows of a frame, in row order
RECURSIVE BuysInRowOrder(_, _)
BuysInRowOrder(rows, n) ==
    IF n = 0 THEN <<>>
    ELSE LET row == Cleaned(rows[n])
         IN  BuysInRowOrder(rows, n - 1)
             \o (IF IsUsableBuy(row)
                 THEN <<[price_per_unit |-> row.price, date_purchased |-> row.date]>>
                 ELSE <<>>)

\* usable buys minus sells over the first n rows of a frame
RECURSIVE Net(_, _)
Net(rows, n) ==
    IF n = 0 THEN Zero
    ELSE LET row == Cleaned(rows[n])
         IN  IF IsUsableBuy(row) \/ IsSell(row) THEN FAdd(Net(rows, n - 1), row.shares)
             ELSE Net(rows, n - 1)

DateBefore(d, e) == ValidDate(d) /\ ValidDate(e) /\ Ordinal(d) < Ordinal(e)

\* C13: the rows of a stock are replayed in table order whatever their dates: as
\* long as no sell failed, the queue holds, in row order, the last of the buys
\* among the rows replayed so far, each with its own price and date; and a sell
\* has failed exactly when, at some row replayed so far, the sells up to and
\* including that row exceed the buys of the rows before it in the table, rows
\* further down the table not counting whatever their dates.
C13_RowOrder ==
    fetched /\ si <= Len(stock_names) =>
        LET buys == BuysInRowOrder(stock_transactions, k)
            j == Len(buys) - Len(inventory)
        IN  /\ failure # "inventory" =>
                /\ j >= 0
                /\ \A i \in 1..Len(inventory) :
                    /\ inventory[i].price_per_unit = buys[j + i].price_per_unit
                    /\ inventory[i].date_purchased = buys[j + i].date_purchased
            /\ failure = "inventory"
                 <=> \E n \in 1..k : FLt(Net(stock_transactions, n), Zero)

\* the first row of the stock is a sell and has failed; the buy in the row after
\* it has an earlier date and would have covered it
C13_Witness ==
    /\ fetched
    /\ si <= Len(stock_names)
    /\ Len(stock_transactions) >= 2
    /\ k = 1
    /\ failure = "inventory"
    /\ IsSell(Cleaned(stock_transactions[1]))
    /\ IsUsableBuy(Cleaned(stock_transactions[2]))
    /\ DateBefore(stock_transactions[2].date, stock_transactions[1].date)
    /\ FLe(FAbs(Cleaned(stock_transactions[1]).shares),
           Cleaned(stock_transactions[2]).shares)

----------------------------------------------------------------------------
(* C14: the report, under SpecStored *)

\* the lot a report row stands for
LotOfRow(r) ==
    [quantity |-> r.number_of_shares_on_hand, price_per_unit |-> r.purchase_price,
     date_purchased |-> r.purchase_date]

\* the lots of the rows of one stock in a report, in report order
RECURSIVE LotsOfStock(_, _)
LotsOfStock(rows, name) ==
    IF rows = <<>> THEN <<>>
    ELSE (IF rows[1].stock_ticker = name THEN <<LotOfRow(rows[1])>> ELSE <<>>)
         \o LotsOfStock(Tail(rows), name)

\* position in the table of the first row of a stock of the account, 0 if none
FirstRowOf(name) ==
    LET own == {i \in 1..Len(table) :
                   table[i].acct = account_id /\ table[i].stock = name}
    IN  IF own = {} THEN 0 ELSE CHOOSE i \in own : \A j \in own : i <= j

\* C14: a returned report is the frame process_account returned; for every stock
\* its rows are, in order, the lots that the replay of the stock's rows left in
\* the queue, oldest first, with their quantity, price and date, and a stock
\* without surviving lots or without rows has no row; every row carries the
\* account; and the rows of a stock whose first table row comes earlier all come
\* before the rows of a stock whose first table row comes later.
C14_ReportIsLots ==
    ReportReturned =>
        /\ summary_df = <<response.rows>>
        /\ \A name \in Stocks :
            LET frame == StockFrame(table, account_id, name)
            IN  LotsOfStock(response.rows, name)
                  = ReplayAlone(frame, Len(frame)).inventory
        /\ \A i \in 1..Len(response.rows) :
            /\ response.rows[i].account_id = account_id
            /\ response.rows[i].stock_ticker \in Stocks
            /\ \A j \in 1..Len(response.rows) :
                i < j /\ response.rows[i].stock_ticker # response.rows[j].stock_ticker
                => FirstRowOf(response.rows[i].stock_ticker)
                     < FirstRowOf(response.rows[j].stock_ticker)

\* table rows X, Y, X, all buys: the report has the two lots of X, first bought
\* first, and then the lot of Y
C14_Witness ==
    /\ ReportReturned
    /\ Len(table) = 3
    /\ table[1].stock = "X" /\ table[2].stock = "Y" /\ table[3].stock = "X"
    /\ Len(response.rows) = 3
    /\ response.rows[1].stock_ticker = "X"
    /\ response.rows[2].stock_ticker = "X"
    /\ response.rows[3].stock_ticker = "Y"
    /\ response.rows[1].number_of_shares_on_hand = Cleaned(table[1]).shares
    /\ response.rows[2].number_of_shares_on_hand = Cleaned(table[3]).shares
    /\ response.rows[1].number_of_shares_on_hand
         # response.rows[2].number_of_shares_on_hand

----------------------------------------------------------------------------
(* C15: the arithmetic of the evaluator, under SpecStored *)

\* a number in units of 10^-4: four decimals hold every price, quantity and gain
\* of the runs
Units(x) == Scaled(x, 4)

RECURSIVE SumGainUnits(_)
SumGainUnits(results) ==
    IF results = <<>> THEN 0
    ELSE Units(results[1].potential_gain_loss) + SumGainUnits(Tail(results))

\* C15: the batch results of the last evaluation are the last rows compiled
\* into the report, which carry the current price used; each batch has
\* potential_gain_loss = (current price - price_per_unit) x quantity, and
\* total_potential_gain_loss is the sum of these over the batches, 0 when there
\* is none.
C15_GainArithmetic ==
    LET results == evaluation.batch_results
        n == Len(results)
        m == Len(stocks_summary)
    IN  /\ n <= m
        /\ \A i \in 1..n :
            LET b == results[i]
                row == stocks_summary[m - n + i]
            IN  /\ row.potential_loss_gain = b.potential_gain_loss
                /\ ~b.potential_gain_loss.nan
                /\ b.potential_gain_loss.e <= 4
                /\ Units(b.potential_gain_loss) * Pow10(4)
                     = (Units(row.current_stock_price) - Units(b.price_per_unit))
                       * Units(b.quantity)
        /\ ~evaluation.total_potential_gain_loss.nan
        /\ evaluation.total_potential_gain_loss.e <= 4
        /\ Units(evaluation.total_potential_gain_loss) = SumGainUnits(results)
        /\ n = 0 => evaluation.total_potential_gain_loss = Zero

\* 3 shares bought at 3 and 1 share bought at 1.5, valued at 2.5: -1.5 and 1,
\* total -0.5
C15_Witness ==
    /\ Len(evaluation.batch_results) = 2
    /\ evaluation.batch_results[1].quantity = Num(3)
    /\ evaluation.batch_results[1].potential_gain_loss = Dec(-15, 1)
    /\ evaluation.batch_results[2].potential_gain_loss = Num(1)
    /\ evaluation.total_potential_gain_loss = Dec(-5, 1)

----------------------------------------------------------------------------
(* C16: the price lookup of every stock, under SpecStored *)

\* the replay of all the rows of a stock of the account
ReplayOfStock(name) ==
    LET frame == StockFrame(table, account_id, name)
    IN  ReplayAlone(frame, Len(frame))

\* C16: once the rows of a stock are replayed the price lookup is what comes
\* next and can fail, whether or not lots are left; a lookup fails only at that
\* point, and the call then returned nothing; a report is returned only after
\* every distinct stock went through its lookup; and a stock that went through
\* it with an empty queue has no row in the report.
C16_LookupEveryStock ==
    /\ SequenceDone => ENABLED PriceLookupFails
    /\ failure = "price" =>
        /\ si <= Len(stock_names)
        /\ k = Len(stock_transactions)
        /\ NothingReturned
    /\ ReportReturned => si = Len(stock_names) + 1
    /\ fetched =>
        \A i \in 1..(si - 1) :
            ReplayOfStock(stock_names[i]).inventory = <<>> =>
                \A j \in 1..Len(stocks_summary) :
                    stocks_summary[j].stock_ticker # stock_names[i]

\* the second stock was bought and sold out, its lookup failed, and nothing is
\* returned although rows of the first stock had been compiled
C16_Witness ==
    /\ failure = "price"
    /\ si = 2
    /\ accepted # <<>>
    /\ sold = Bought
    /\ inventory = <<>>
    /\ stocks_summary # <<>>
    /\ NothingReturned

----------------------------------------------------------------------------
(* C17: the consume loop, under SpecStored *)

\* the queue as it was before the row replayed last
QueueBefore == ReplayAlone(stock_transactions, k - 1).inventory

\* the row replayed last
LastRow == Cleaned(stock_transactions[k])

\* C17: when the row replayed last is a sell, its loop ended after at least one
\* and at most (lots in the queue before it + 1) iterations: one for every lot it
\* removed from the head of the queue, at most one more that reduced the lot then
\* at the head and ended the loop, and at most one more that raised the inventory
\* error, which happens only on a queue it found or left empty.
C17_ConsumeBound ==
    fetched /\ si <= Len(stock_names) /\ k >= 1 /\ IsSell(LastRow) =>
        LET r == ApplyTx(QueueBefore, LastRow)
            removed == Len(QueueBefore) - Len(r.inventory)
            partial == /\ r.inventory # <<>>
                       /\ r.inventory[1].quantity # QueueBefore[removed + 1].quantity
            one(b) == IF b THEN 1 ELSE 0
        IN  /\ r.raised <=> failure = "inventory"
            /\ ~r.raised => inventory = r.inventory
            /\ removed >= 0
            /\ r.inventory = SubSeq(QueueBefore, removed + 1, Len(QueueBefore))
                 \/ (partial /\ Tail(r.inventory)
                                 = SubSeq(QueueBefore, removed + 2, Len(QueueBefore)))
            /\ r.raised => r.inventory = <<>> /\ ~partial
            /\ r.iters = removed + one(partial) + one(r.raised)
            /\ r.iters >= 1
            /\ r.iters <= Len(QueueBefore) + 1

\* a sell of 2 on a queue of one lot of 1: the lot is removed, then the error is
\* raised on the empty queue, two iterations for one lot
C17_Witness ==
    /\ fetched
    /\ si <= Len(stock_names)
    /\ k >= 2
    /\ IsSell(LastRow)
    /\ Len(QueueBefore) = 1
    /\ ApplyTx(QueueBefore, LastRow).iters = 2
    /\ failure = "inventory"

----------------------------------------------------------------------------
(* C18: rows of zero shares or without a share count *)

\* a step in which iterrows yields a row that is neither a buy nor a sell: the
\* share count is 0 or not a number, so that no buy is accepted or dropped and
\* nothing is sold
NeitherBuyNorSell ==
    /\ RowStep
    /\ accepted' = accepted
    /\ dropped' = dropped
    /\ sold' = sold

\* C18: a row whose share count is 0 or not a number changes nothing but the
\* position in the frame, whatever its price and date hold: the queue is as it
\* was, no exception is raised, the call goes on and the report rows compiled so
\* far are untouched.
C18_ZeroSharesNoOp ==
    [][NeitherBuyNorSell =>
          /\ inventory' = inventory
          /\ failure' = "none"
          /\ pc' = "replay"
          /\ response' = response
          /\ stocks_summary' = stocks_summary]_vars

\* two rows replayed on a stock, one of them a buy that is in the queue, nothing
\* sold and nothing dropped: the other row had 0 shares or no share count
C18_Witness ==
    /\ pc = "replay"
    /\ k = 2
    /\ Len(accepted) = 1
    /\ dropped = 0
    /\ sold = Zero
    /\ inventory = accepted
    /\ failure = "none"

====
